---- MODULE Spec2Model ----
(***************************************************************************)
(* Model of extract_queries.py: a boolean search expression is normalised  *)
(* to single-character operators, parsed into a binary expression tree by  *)
(* create_exp_tree and rendered for one of four backends by create_query.  *)
(*                                                                         *)
(* Python str values are TLA+ strings; positions are 1-based here, so the  *)
(* Python index i is the position i + 1.  A Node is a record whose left    *)
(* and right fields are <<>> for None and <<child>> for a child node.      *)
(***************************************************************************)
EXTENDS Integers, Sequences, FiniteSets, TLC

VARIABLES pc, caller, command, query_type_req, exp, query_type, calls, root, result

vars == <<pc, caller, command, query_type_req, exp, query_type, calls, root, result>>

(***************************************************************************)
(* Bounds of the explored inputs.                                          *)
(***************************************************************************)
MaxOperands == 3

MaxLen == 4

(***************************************************************************)
(* Python string primitives.                                               *)
(***************************************************************************)
CharAt(s, i) == SubSeq(s, i, i)

Chars(s) == {CharAt(s, i) : i \in 1..Len(s)}

Contains(s, sub) == \E i \in 1..(Len(s) - Len(sub) + 1) : SubSeq(s, i, i + Len(sub) - 1) = sub

Count(s, c) == Cardinality({i \in 1..Len(s) : CharAt(s, i) = c})

LastChar(s) == SubSeq(s, Len(s), Len(s))

Slice1m1(s) == SubSeq(s, 2, Len(s) - 1)

Strip(s) ==
    LET kept == {i \in 1..Len(s) : CharAt(s, i) # " "}
    IN  IF kept = {} THEN ""
        ELSE SubSeq(s, CHOOSE i \in kept : \A j \in kept : i <= j, CHOOSE i \in kept : \A j \in kept : j <= i)

Find(s, sub) ==
    CHOOSE i \in 1..(Len(s) - Len(sub) + 1) :
        /\ SubSeq(s, i, i + Len(sub) - 1) = sub
        /\ \A j \in 1..(i - 1) : SubSeq(s, j, j + Len(sub) - 1) # sub

RECURSIVE Replace(_, _, _)
Replace(s, old, new) ==
    IF ~Contains(s, old) THEN s
    ELSE LET i == Find(s, old)
         IN  SubSeq(s, 1, i - 1) \o new \o Replace(SubSeq(s, i + Len(old), Len(s)), old, new)

LowerLetters == "abcdefghijklmnopqrstuvwxyz"

UpperLetters == "ABCDEFGHIJKLMNOPQRSTUVWXYZ"

UpperChar(c) ==
    IF \E i \in 1..26 : CharAt(LowerLetters, i) = c
    THEN CharAt(UpperLetters, CHOOSE i \in 1..26 : CharAt(LowerLetters, i) = c)
    ELSE c

RECURSIVE Upper(_)
Upper(s) ==
    IF Len(s) = 0 THEN ""
    ELSE IF Len(s) = 1 THEN UpperChar(s)
    ELSE LET h == Len(s) \div 2 IN Upper(SubSeq(s, 1, h)) \o Upper(SubSeq(s, h + 1, Len(s)))

(***************************************************************************)
(* Module constants.                                                       *)
(***************************************************************************)
BASE_QUERIES ==
    [SQL |-> "SELECT * FROM Resume WHERE ", MONGODB |-> "{", ORM |-> "", ELASTICSEARCH |-> " \"query\": "]

END_QUERIES ==
    [SQL |-> "", MONGODB |-> "}", ORM |-> "", ELASTICSEARCH |-> ""]

InvalidMessage ==
    "Invalid query type request. SQL, MONGODB, and ORM are only currently accepted query types"

(***************************************************************************)
(* Node and the tree builder.                                              *)
(***************************************************************************)
Node(value) == [value |-> value, left |-> <<>>, right |-> <<>>]

OpNode(value, lnode, rnode) == [value |-> value, left |-> <<lnode>>, right |-> <<rnode>>]

HasOperator(e) == Contains(e, "|") \/ Contains(e, "&")

generate_node(e) ==
    LET idx == IF Contains(e, "|") THEN Find(e, "|") ELSE Find(e, "&")
    IN  OpNode(Strip(CharAt(e, idx)),
               Node(Strip(SubSeq(e, 1, idx - 1))),
               Node(Strip(SubSeq(e, idx + 1, Len(e)))))

ClosedWithoutOpen(e) == Count(e, "(") < 1 /\ LastChar(e) = ")"

RemoveParens(e) == Replace(Replace(e, "(", ""), ")", "")

lopen(e, i) ==
    Cardinality({j \in 1..(i - 1) : CharAt(e, j) = "("}) - Cardinality({j \in 1..(i - 1) : CharAt(e, j) = ")"})

TopLevelOps(e) == {i \in 1..Len(e) : CharAt(e, i) \in {"|", "&"} /\ lopen(e, i) = 0}

SplitFirst(e) == CHOOSE i \in TopLevelOps(e) : \A j \in TopLevelOps(e) : i <= j

SplitPoint(e) == CHOOSE i \in TopLevelOps(e) : \A j \in TopLevelOps(e) : j <= i

LeftPart(e, i) == Strip(SubSeq(e, 1, i - 1))

RightPart(e, i) == Strip(SubSeq(e, i + 1, Len(e)))

StripWhitespace(e) == Strip(e)

StripOuter(e) == Slice1m1(e)

RECURSIVE create_exp_tree(_)
create_exp_tree(e) ==
    IF ~HasOperator(e) THEN Node(e)
    ELSE IF ClosedWithoutOpen(e) THEN generate_node(RemoveParens(e))
    ELSE IF TopLevelOps(e) # {}
         THEN LET i == SplitPoint(e)
              IN  OpNode(CharAt(e, i), create_exp_tree(LeftPart(e, i)), create_exp_tree(RightPart(e, i)))
         ELSE create_exp_tree(StripOuter(e))

(***************************************************************************)
(* The four emitters and the dispatcher.                                   *)
(***************************************************************************)
RECURSIVE inorder(_)
inorder(node) ==
    IF node.left # <<>>
    THEN "(" \o inorder(node.left[1]) \o " " \o node.value \o " " \o inorder(node.right[1]) \o ")"
    ELSE " text like '%" \o node.value \o "%'"

RECURSIVE inorder_orm(_)
inorder_orm(node) ==
    IF node.left # <<>>
    THEN "Q(" \o inorder_orm(node.left[1]) \o ") " \o node.value \o " Q(" \o inorder_orm(node.right[1]) \o ")"
    ELSE "text__icontains='" \o node.value \o "'"

RECURSIVE preorder(_)
preorder(node) ==
    IF node.left # <<>>
    THEN " $" \o node.value \o " : [" \o preorder(node.left[1]) \o ", " \o preorder(node.right[1]) \o "]"
    ELSE "{\"text\" : /.*" \o node.value \o ".*/i}"

RECURSIVE preorder_elasticsearch(_)
preorder_elasticsearch(node) ==
    IF node.left # <<>>
    THEN " { \"bool\" : {" \o " " \o node.value \o " : [" \o preorder_elasticsearch(node.left[1])
         \o ", " \o preorder_elasticsearch(node.right[1]) \o "]" \o "} }"
    ELSE "{\"match\" : { \"text\" : {" \o "\"" \o node.value \o "\"" \o "} } "

temp_query(node, qt) ==
    CASE qt = "ORM" -> Replace(inorder_orm(node), "&", ",")
      [] qt = "ELASTICSEARCH" ->
            Replace(Replace(preorder_elasticsearch(node), "|", "\"SHOULD\""), "&", "\"MUST\"")
      [] qt = "SQL" -> Replace(Replace(Slice1m1(inorder(node)), "|", "OR"), "&", "AND")
      [] qt = "MONGODB" -> Replace(Replace(preorder(node), "|", "OR"), "&", "AND")

create_query(node, qt) == BASE_QUERIES[qt] \o temp_query(node, qt) \o END_QUERIES[qt]

value_dict ==
    << <<"(", " ( ">>, <<")", " ) ">>, <<" OR ", "|">>, <<" or ", "|">>,
       <<" AND ", "&">>, <<" and ", "&">>, <<"\"", "">> >>

RECURSIVE ReplaceAll(_, _)
ReplaceAll(s, k) ==
    IF k > Len(value_dict) THEN s
    ELSE ReplaceAll(Replace(s, value_dict[k][1], value_dict[k][2]), k + 1)

Normalize(e) == ReplaceAll(e, 1)

QueryTypes == DOMAIN BASE_QUERIES

(***************************************************************************)
(* Inputs.  Commands are expressions as a user writes them: chains of      *)
(* operands joined by keywords (Flat), such chains in parentheses, two     *)
(* operands or groups joined by a keyword (Pairs), chains with one         *)
(* parenthesis missing (Unbalanced), with optional surrounding blanks; one *)
(* operand is quoted.  CanonicalInputs are the strings handed to           *)
(* create_exp_tree directly: every string over Alphabet up to MaxLen, and  *)
(* doubly parenthesised chains with optional inner blanks (Nested).        *)
(***************************************************************************)
Operands == {"A", "\"B\""}

Keywords == {" AND ", " OR "}

Pads == {"", " "}

RECURSIVE Chains(_, _, _)
Chains(T, K, n) ==
    IF n <= 1 THEN T
    ELSE LET C == Chains(T, K, n - 1) IN C \cup {c \o k \o t : c \in C, k \in K, t \in T}

Wrap(S) == {"(" \o s \o ")" : s \in S}

Flat == Chains(Operands, Keywords, MaxOperands)

Plain == Chains({"A"}, Keywords, MaxOperands)

Pairs == Chains(Operands \cup Wrap(Plain), Keywords, 2)

Unbalanced == {"(" \o f : f \in Plain} \cup {f \o ")" : f \in Plain}

Commands == {l \o e \o t : l \in Pads, t \in Pads, e \in Flat \cup Wrap(Plain) \cup Unbalanced} \cup Pairs

QueryTypeRequests == {"sql", "MongoDB", "ORM", "ElasticSearch", "XML"}

Alphabet == {"A", "&", "|", "(", ")", " "}

RECURSIVE Strings(_)
Strings(n) ==
    IF n = 0 THEN {""}
    ELSE LET S == Strings(n - 1) IN S \cup {s \o c : s \in {x \in S : Len(x) = n - 1}, c \in Alphabet}

Nested == {"(" \o l \o g \o t \o ")" : l \in Pads, t \in Pads, g \in Wrap(Chains({"A", "B"}, {"&", "|"}, MaxOperands))}

CanonicalInputs == Strings(MaxLen) \cup Nested

(***************************************************************************)
(* The state machine.  A run is one call: of generate_query with the       *)
(* arguments command and query_type_req (its parameters exp and query_type *)
(* start as these), or of create_exp_tree with the argument exp.           *)
(* generate_query either rejects the query type or normalises the          *)
(* expression and starts the tree builder; every recursive invocation of   *)
(* create_exp_tree is one step that takes the pending call at the head of  *)
(* calls and puts the invocations it makes in its place; when no call is   *)
(* pending the finished tree is returned and, under generate_query,        *)
(* create_query renders it.                                                *)
(***************************************************************************)
Init ==
    /\ pc = "call"
    /\ calls = <<>>
    /\ root = <<>>
    /\ result = <<>>
    /\ \/ /\ caller = "generate_query"
          /\ command \in Commands
          /\ query_type_req \in QueryTypeRequests
          /\ exp = command
          /\ query_type = query_type_req
       \/ /\ caller = "create_exp_tree"
          /\ command = ""
          /\ query_type_req = ""
          /\ exp \in CanonicalInputs
          /\ query_type = ""

GenerateQueryInvalid ==
    /\ pc = "call"
    /\ caller = "generate_query"
    /\ Upper(query_type) \notin QueryTypes
    /\ query_type' = Upper(query_type)
    /\ result' = <<InvalidMessage>>
    /\ pc' = "done"
    /\ UNCHANGED <<caller, command, query_type_req, exp, calls, root>>

GenerateQuery ==
    /\ pc = "call"
    /\ caller = "generate_query"
    /\ Upper(query_type) \in QueryTypes
    /\ query_type' = Upper(query_type)
    /\ exp' = Normalize(exp)
    /\ calls' = <<Normalize(exp)>>
    /\ pc' = "parse"
    /\ UNCHANGED <<caller, command, query_type_req, root, result>>

CreateExpTree ==
    /\ pc = "call"
    /\ caller = "create_exp_tree"
    /\ calls' = <<exp>>
    /\ pc' = "parse"
    /\ UNCHANGED <<caller, command, query_type_req, exp, query_type, root, result>>

CallLeaf ==
    /\ pc = "parse"
    /\ calls # <<>>
    /\ ~HasOperator(Head(calls))
    /\ calls' = Tail(calls)
    /\ UNCHANGED <<pc, caller, command, query_type_req, exp, query_type, root, result>>

CallGenerateNode ==
    /\ pc = "parse"
    /\ calls # <<>>
    /\ HasOperator(Head(calls))
    /\ ClosedWithoutOpen(Head(calls))
    /\ calls' = Tail(calls)
    /\ UNCHANGED <<pc, caller, command, query_type_req, exp, query_type, root, result>>

SubCalls(e) ==
    LET ops == TopLevelOps(e)
        rank(i) == Cardinality({j \in ops : j <= i})
    IN  [m \in 1..(2 * Cardinality(ops)) |->
            CHOOSE part \in {IF m % 2 = 1 THEN LeftPart(e, i) ELSE RightPart(e, i) :
                                i \in {j \in ops : rank(j) = (m + 1) \div 2}} : TRUE]

CallSplit ==
    /\ pc = "parse"
    /\ calls # <<>>
    /\ HasOperator(Head(calls))
    /\ ~ClosedWithoutOpen(Head(calls))
    /\ TopLevelOps(Head(calls)) # {}
    /\ calls' = SubCalls(Head(calls)) \o Tail(calls)
    /\ UNCHANGED <<pc, caller, command, query_type_req, exp, query_type, root, result>>

CallStrip ==
    /\ pc = "parse"
    /\ calls # <<>>
    /\ HasOperator(Head(calls))
    /\ ~ClosedWithoutOpen(Head(calls))
    /\ TopLevelOps(Head(calls)) = {}
    /\ calls' = <<StripOuter(Head(calls))>> \o Tail(calls)
    /\ UNCHANGED <<pc, caller, command, query_type_req, exp, query_type, root, result>>

ReturnTree ==
    /\ pc = "parse"
    /\ calls = <<>>
    /\ root' = <<create_exp_tree(exp)>>
    /\ pc' = IF caller = "generate_query" THEN "emit" ELSE "done"
    /\ UNCHANGED <<caller, command, query_type_req, exp, query_type, calls, result>>

CreateQuery ==
    /\ pc = "emit"
    /\ result' = <<create_query(root[1], query_type)>>
    /\ pc' = "done"
    /\ UNCHANGED <<caller, command, query_type_req, exp, query_type, calls, root>>

Next ==
    \/ GenerateQueryInvalid
    \/ GenerateQuery
    \/ CreateExpTree
    \/ CallLeaf
    \/ CallGenerateNode
    \/ CallSplit
    \/ CallStrip
    \/ ReturnTree
    \/ CreateQuery

Spec == Init /\ [][Next]_vars

(***************************************************************************)
(* The interpreter runs a started invocation to its end: an invocation of  *)
(* create_exp_tree that is pending is eventually executed.                 *)
(***************************************************************************)
Invocation == CallLeaf \/ CallGenerateNode \/ CallSplit \/ CallStrip

FairSpec == Spec /\ WF_vars(Invocation)

(***************************************************************************)
(* Vocabulary of the properties: the grammar of canonical expressions      *)
(* (operands are maximal runs without & | ( ), operators are & and |,      *)
(* groups are balanced parentheses), its tokens, and the shape of a tree.  *)
(***************************************************************************)
Special == {"&", "|", "(", ")"}

Operators == {"&", "|"}

ParenDepth(e, n) == Count(SubSeq(e, 1, n), "(") - Count(SubSeq(e, 1, n), ")")

Balanced(e) == ParenDepth(e, Len(e)) = 0 /\ \A n \in 1..Len(e) : ParenDepth(e, n) >= 0

Squeeze(s) == Replace(s, " ", "")

Skeleton(s) == Upper(Replace(Squeeze(s), "\"", ""))

Kind(c) == IF c \in Operators THEN "op" ELSE IF c \in {"(", ")"} THEN c ELSE "text"

Adjacent == {<<"text", "text">>, <<"text", "op">>, <<"text", ")">>, <<"op", "text">>, <<"op", "(">>,
             <<"(", "text">>, <<"(", "(">>, <<")", "op">>, <<")", ")">>}

WellFormed(e) ==
    LET s == Squeeze(e)
    IN  /\ s # ""
        /\ Balanced(s)
        /\ Kind(CharAt(s, 1)) \in {"text", "("}
        /\ Kind(LastChar(s)) \in {"text", ")"}
        /\ \A i \in 1..(Len(s) - 1) : <<Kind(CharAt(s, i)), Kind(CharAt(s, i + 1))>> \in Adjacent

NumOperators(e) == Count(e, "&") + Count(e, "|")

FlatChain(e) == WellFormed(e) /\ ~Contains(e, "(") /\ ~Contains(e, ")") /\ NumOperators(e) >= 2

Flush(acc) == IF Strip(acc) = "" THEN <<>> ELSE <<Strip(acc)>>

RECURSIVE Scan(_, _)
Scan(s, acc) ==
    IF s = "" THEN Flush(acc)
    ELSE LET c == CharAt(s, 1)
             rest == SubSeq(s, 2, Len(s))
         IN  IF c \in Operators THEN Flush(acc) \o <<c>> \o Scan(rest, "")
             ELSE IF c \in Special THEN Flush(acc) \o Scan(rest, "")
             ELSE Scan(rest, acc \o c)

Tokens(e) == Scan(e, "")

RECURSIVE LeftFold(_)
LeftFold(t) ==
    IF Len(t) <= 1 THEN Node(t[1])
    ELSE OpNode(t[Len(t) - 1], LeftFold(SubSeq(t, 1, Len(t) - 2)), Node(t[Len(t)]))

IsLeaf(n) == n.left = <<>>

RECURSIVE InorderSeq(_)
InorderSeq(n) ==
    IF IsLeaf(n) THEN <<Strip(RemoveParens(n.value))>>
    ELSE InorderSeq(n.left[1]) \o <<n.value>> \o InorderSeq(n.right[1])

RECURSIVE LeafValues(_)
LeafValues(n) == IF IsLeaf(n) THEN {n.value} ELSE LeafValues(n.left[1]) \cup LeafValues(n.right[1])

RECURSIVE NumLeaves(_)
NumLeaves(n) == IF IsLeaf(n) THEN 1 ELSE NumLeaves(n.left[1]) + NumLeaves(n.right[1])

Done == pc = "done"

Built == pc = "done" /\ root # <<>>

Answered(qt) == pc = "done" /\ caller = "generate_query" /\ query_type = qt /\ result # <<>>

Body(qt) == SubSeq(result[1], Len(BASE_QUERIES[qt]) + 1, Len(result[1]) - Len(END_QUERIES[qt]))

(***************************************************************************)
(* Properties.                                                             *)
(***************************************************************************)

\* C1: for every command whose parentheses are unbalanced, generate_query
\* with a recognized query type fails: no tree is returned and no query
\* string is produced.
C1_UnbalancedFails ==
    (Done /\ caller = "generate_query" /\ query_type \in QueryTypes /\ ~Balanced(command))
        => (root = <<>> /\ result = <<>>)

\* C2: for every query type that is not, ignoring case, one of the four
\* recognized types, generate_query returns a message (it does not raise),
\* before any normalization, parsing or emission, and the message names all
\* four accepted backends.
C2_InvalidTypeMessage ==
    (Done /\ caller = "generate_query" /\ Upper(query_type_req) \notin QueryTypes)
        => /\ result # <<>>
           /\ exp = command
           /\ root = <<>>
           /\ \A t \in QueryTypes : Contains(result[1], t)

\* C3: a flat chain of three or more non-empty operands joined by top-level
\* operators without parentheses is grouped left-associatively: the root
\* carries the right-most operator, its right child is the leaf of the last
\* operand, its left child is the chain before that operator grouped the
\* same way.
C3_LeftAssociative ==
    (Built /\ FlatChain(exp)) => root[1] = LeftFold(Tokens(exp))

C3_Witness ==
    /\ Built
    /\ FlatChain(exp)
    /\ Contains(exp, "&")
    /\ Contains(exp, "|")
    /\ ~IsLeaf(root[1])
    /\ ~IsLeaf(root[1].left[1])
    /\ IsLeaf(root[1].right[1])

\* C4: the SQL body is the in-order rendering with only its outermost
\* parenthesis pair removed (no other character is dropped); for a single
\* operand it is the complete predicate text like '%<operand>%'.
C4_SqlBodyOnlyParensDropped ==
    Answered("SQL") =>
        LET full == Replace(Replace(inorder(root[1]), "|", "OR"), "&", "AND")
            body == Body("SQL")
        IN  /\ full = body \/ full = "(" \o body \o ")"
            /\ IsLeaf(root[1]) => Strip(body) = "text like '%" \o root[1].value \o "%'"

RECURSIVE MongoDocument(_)
MongoDocument(n) ==
    IF IsLeaf(n) THEN "{\"text\" : /.*" \o n.value \o ".*/i}"
    ELSE "{ \"$" \o (IF n.value = "&" THEN "and" ELSE "or") \o "\": ["
         \o MongoDocument(n.left[1]) \o ", " \o MongoDocument(n.right[1]) \o "] }"

\* C5: for MONGODB every operator node, at the root and at every nested
\* depth, is emitted as a brace-enclosed document { "$<OP>": [<left>, <right>] }
\* with <OP> and/or and the left subtree first (compared up to blanks,
\* letter case and quoting, so only the structure counts, and for trees
\* whose leaves hold plain operand text).
C5_MongoOperatorDocuments ==
    (Answered("MONGODB") /\ ~IsLeaf(root[1]) /\ \A v \in LeafValues(root[1]) : Chars(v) \cap Special = {})
        => Skeleton(result[1]) = Skeleton(MongoDocument(root[1]))

RECURSIVE ElasticDocument(_)
ElasticDocument(n) ==
    IF IsLeaf(n) THEN "{ \"match\": { \"text\": \"" \o n.value \o "\" } }"
    ELSE "{ \"bool\": { \"" \o (IF n.value = "&" THEN "must" ELSE "should") \o "\": ["
         \o ElasticDocument(n.left[1]) \o ", " \o ElasticDocument(n.right[1]) \o "] } }"

\* C6: for ELASTICSEARCH the emitted body is a well-formed nested document:
\* every { is matched by a }, operator nodes are
\* { "bool": { "<OP>": [<left>, <right>] } } with must for AND and should for
\* OR, leaves are closed { "match": { "text": "<operand>" } } clauses
\* (compared up to blanks, letter case and quoting).
C6_ElasticWellFormed ==
    Answered("ELASTICSEARCH") =>
        /\ Count(Body("ELASTICSEARCH"), "{") = Count(Body("ELASTICSEARCH"), "}")
        /\ Skeleton(Body("ELASTICSEARCH")) = Skeleton(ElasticDocument(root[1]))

\* C7: for every command with balanced parentheses and a non-empty operand
\* on both sides of every operator, every leaf of the tree generate_query
\* builds holds non-empty text without leading or trailing blanks and
\* without any of & | ( ).
C7_LeafOperandText ==
    (Built /\ caller = "generate_query" /\ WellFormed(exp))
        => \A v \in LeafValues(root[1]) : v # "" /\ Strip(v) = v /\ Chars(v) \cap Special = {}

NeedsStrip(e) == HasOperator(e) /\ ~ClosedWithoutOpen(e) /\ TopLevelOps(e) = {}

Redundant(e) ==
    /\ WellFormed(e)
    /\ HasOperator(e)
    /\ CharAt(Strip(e), 1) = "("
    /\ \A i \in 1..Len(e) : CharAt(e, i) \in Operators => ParenDepth(e, i) > 0

Unwrapped(e) == Strip(Slice1m1(Strip(e)))

\* C8: whenever create_exp_tree finds no depth-0 operator in an expression
\* that contains an operator, the two characters it removes are one opening
\* ( at the start and one closing ) at the end; so a balanced expression
\* wrapped in redundant parentheses yields the tree of the unwrapped one.
\* Stated for the invocations made while parsing a well-formed expression.
C8_StripRemovesParens ==
    /\ (pc = "parse" /\ calls # <<>> /\ WellFormed(exp) /\ NeedsStrip(Head(calls)))
          => (CharAt(Head(calls), 1) = "(" /\ LastChar(Head(calls)) = ")")
    /\ (Built /\ Redundant(exp)) => root[1] = create_exp_tree(Unwrapped(exp))

\* C9: for every well-formed canonical expression without leading or
\* trailing blanks, the in-order reading of the tree gives the operands and
\* operators of the input in the same order (a leaf is read as its text
\* without parentheses and surrounding blanks), and the number of leaves is
\* the number of operators plus one.
C9_OrderAndCount ==
    (Built /\ WellFormed(exp) /\ Strip(exp) = exp)
        => /\ InorderSeq(root[1]) = Tokens(exp)
           /\ NumLeaves(root[1]) = NumOperators(exp) + 1

\* C10: create_exp_tree terminates on every input string, well-formed or
\* not: every invocation hands strictly shorter strings to the invocations
\* it makes, and once the builder is started no invocation stays pending.
C10_Terminates ==
    /\ (pc = "parse") ~> (calls = <<>>)
    /\ [][(pc = "parse" /\ calls # <<>>)
            => \A k \in 1..(Len(calls') - Len(calls) + 1) : Len(calls'[k]) < Len(Head(calls))]_vars

C10_Witness ==
    /\ Built
    /\ caller = "create_exp_tree"
    /\ NeedsStrip(exp)
    /\ ~Balanced(exp)
    /\ ~IsLeaf(root[1])

====
